---- MODULE Spec2Model ----
(***************************************************************************)
(* Paginated retrieval and record/replay of bank operations                *)
(* (creditagricole_particuliers/operations.py).                            *)
(*                                                                         *)
(* The state is one caller holding at most one result object (Operations   *)
(* or DeferredOperations), the session's mock configuration, the fixture   *)
(* store, and the frame of the get_operations invocation in progress.      *)
(* The remote server and the fixture store are the environment: the server *)
(* answers every GET with a status and a body of its choice.               *)
(***************************************************************************)
EXTENDS Integers, Sequences, FiniteSets, TLC

VARIABLES
    session,          \* useMocks, writeMocks, useMockSuffix, writeMockSuffix
    fixtures,         \* fixture store: file name -> stored document
    kind,             \* class of the object: "none", "Operations", "DeferredOperations"
    self,             \* identifying fields of the object
    list_operations,  \* self.list_operations
    frame,            \* arguments of the running get_operations invocation
    pc,               \* "idle", "enter", "await", "returned", "raised"
    error,            \* the exception that ended the last call
    trace,            \* external effects of the current top-level call, in order
    call              \* the current top-level call: how it was entered, its arguments

vars == <<session, fixtures, kind, self, list_operations, frame, pc, error, trace, call>>

-----------------------------------------------------------------------------
(* Bounds of the model *)

MaxPageLen == 2      \* entries in one server page
MaxPrior == 1        \* records an object holds when a further call is made on it
ErrorStatus == 500   \* the non-success status the server answers with

(* Program constants *)

DefaultLimit == 30   \* get_operations(..., limit=30, ...)
HttpOk == 200        \* r.status_code != 200

Counts == {1, 50, 70}           \* requested counts tried
Limits == {10, DefaultLimit}     \* limit arguments tried on a direct call
Cursors == <<"X", "a b">>        \* nextSetStartIndex tokens the server hands out
Suffixes == {"mock", "rec"}      \* useMockSuffix / writeMockSuffix values

-----------------------------------------------------------------------------
(* Values *)

None == "None"                   \* Python None for startIndex
NoCursor == "<absent>"           \* key nextSetStartIndex not in the response

NoSleep == [isNum |-> FALSE, secs |-> 0]          \* sleep=None
SleepSecs(n) == [isNum |-> TRUE, secs |-> n]      \* sleep=n, an int or a float
Sleeps == {NoSleep, SleepSecs(1)}

\* A raw entry: the i-th entry of the k-th page the server sends; complete
\* iff it carries libelleOperation, dateOperation and montant.
RawEntry(k, i, c) == [page |-> k, pos |-> i, complete |-> c]

\* The entry lists the server may put in its k-th page: up to MaxPageLen
\* complete entries, or a complete entry followed by an incomplete one.
PageItems(k) ==
    {[i \in 1..n |-> RawEntry(k, i, TRUE)] : n \in 0..MaxPageLen}
    \cup {<<RawEntry(k, 1, TRUE), RawEntry(k, 2, FALSE)>>}

\* A JSON text, described by the value it decodes to.
Doc(shape, hasList, items, hasNext, next) ==
    [shape |-> shape, hasList |-> hasList, items |-> items,
     hasNext |-> hasNext, next |-> next]
ArrayDoc(items) == Doc("array", FALSE, items, "absent", NoCursor)
ObjectDoc(hasList, items, hasNext, next) == Doc("object", hasList, items, hasNext, next)
InvalidDoc == Doc("invalid", FALSE, <<>>, "absent", NoCursor)
NoDoc == Doc("none", FALSE, <<>>, "absent", NoCursor)

NoError == [type |-> "none", status |-> 0, text |-> NoDoc]
Raise(type) == [type |-> type, status |-> 0, text |-> NoDoc]

-----------------------------------------------------------------------------
(* Operation: one decoded entry *)

\* Operation.__init__ reads three required fields of descr; a missing one
\* raises KeyError.
Operation(descr) == [descr |-> descr]

\* Index of the first entry Operation() cannot be built from, 0 if none.
FirstIncomplete(items) ==
    IF \E i \in 1..Len(items) : ~items[i].complete
    THEN CHOOSE i \in 1..Len(items) :
            /\ ~items[i].complete
            /\ \A j \in 1..(i - 1) : items[j].complete
    ELSE 0

\* Mutant of AppendOperations: the entries of a page are appended last first.
AppendOperations_Reversed(list, items) ==
    list \o [i \in 1..Len(items) |-> Operation(items[Len(items) + 1 - i])]

\* for op in ...: self.list_operations.append(Operation(op)); the loop stops
\* at the first entry that raises.
AppendOperations(list, items) ==
    LET bad == FirstIncomplete(items)
        n == IF bad = 0 THEN Len(items) ELSE bad - 1
    IN list \o [i \in 1..n |-> Operation(items[i])]

-----------------------------------------------------------------------------
(* Dates *)

Date(y, m, d) == [y |-> y, m |-> m, d |-> d]
DateRanges == {<<Date(2024, 2, 28), Date(2024, 3, 1)>>}

MillisPerSecond == 1000

\* Mutant of DaysFromCivil: the day of the year, the year left out.
DaysFromCivil_YearIgnored(date) ==
    LET mp == IF date.m > 2 THEN date.m - 3 ELSE date.m + 9
    IN (153 * mp + 2) \div 5 + date.d - 1

\* Days between 1970-01-01 and the date (proleptic Gregorian calendar).
DaysFromCivil(date) ==
    LET y == IF date.m <= 2 THEN date.y - 1 ELSE date.y
        era == y \div 400
        yoe == y - era * 400
        mp == IF date.m > 2 THEN date.m - 3 ELSE date.m + 9
        doy == (153 * mp + 2) \div 5 + date.d - 1
        doe == yoe * 365 + yoe \div 4 - yoe \div 100 + doy
    IN era * 146097 + doe - 719468

\* int(datetime.strptime(s, "%Y-%m-%d").timestamp()): midnight of the date,
\* in seconds.  The query carries this value times MillisPerSecond.
Timestamp(date) == DaysFromCivil(date) * 86400

-----------------------------------------------------------------------------
(* Fixture names and the fixture store *)

MockFileName(mock_file_base, suffix) == mock_file_base \o "_" \o suffix \o ".json"

\* mock_file_base = f"account-{grandeFamilleCode}-{compteIdx}_operations"
AccountMockFileBase(obj) ==
    "account-" \o obj.grandeFamilleCode \o "-" \o obj.compteIdx \o "_operations"

CardMockFileBase(obj) == "card-" \o obj.carteIdx \o "_operations"

TheObject == [compteIdx |-> "0", grandeFamilleCode |-> "1", carteIdx |-> "7"]

FixtureNames ==
    {MockFileName(b, s) : b \in {AccountMockFileBase(TheObject), CardMockFileBase(TheObject)},
                          s \in Suffixes}

\* What a fixture file holds.
FixtureContents ==
    {NoDoc, ArrayDoc(<<>>), ArrayDoc(<<RawEntry(0, 2, TRUE), RawEntry(0, 1, TRUE)>>)}

\* mock_config.read_json_mock(name): the text of the file; raises when the
\* file does not exist.
ReadFound(store, name) == store[name] # NoDoc
ReadJsonMock(store, name) == store[name]

\* mock_config.write_json_mock(name, data): the file then holds data; a
\* list is stored as its JSON text, a text as it is.
Handed(form, doc) == [form |-> form, doc |-> doc]
WriteJsonMock(store, name, data) == [store EXCEPT ![name] = data.doc]

-----------------------------------------------------------------------------
(* Operations.get_operations: the pure parts *)

\* Mutant of NextCount: nextCount starts as count instead of 0.
NextCount_StartsAtCount(count, limit) == IF count > limit THEN count - limit ELSE count

\* Mutant of NextCount: the page just asked for is not taken off.
NextCount_KeepsCount(count, limit) == IF count > limit THEN count ELSE 0

\* nextCount = 0; if count > limit: nextCount = count - limit
NextCount(count, limit) == IF count > limit THEN count - limit ELSE 0

\* requests.utils.quote(startIndex): percent-encoding of the cursor
Quote(s) == IF s = "a b" THEN "a%20b" ELSE s
Unquote(s) == IF s = "a%20b" THEN "a b" ELSE s

BaseParams == {"grandeFamilleCode", "compteIdx", "idDevise", "dateDebut", "count"}

\* Mutant of Url: dateFin is added whether or not there is a cursor.
Url_AlwaysDateFin(obj, startIndex, limit) ==
    [resource |-> "operations",
     params |-> BaseParams \cup {"dateFin"}
                \cup (IF startIndex # None THEN {"startIndex"} ELSE {}),
     grandeFamilleCode |-> obj.grandeFamilleCode,
     compteIdx |-> obj.compteIdx,
     idDevise |-> "EUR",
     dateDebut |-> Timestamp(obj.date_start),
     startIndex |-> IF startIndex # None THEN Quote(startIndex) ELSE "",
     dateFin |-> Timestamp(obj.date_stop),
     count |-> limit]

\* The query string of the GET of one page.
Url(obj, startIndex, limit) ==
    [resource |-> "operations",
     params |-> BaseParams \cup (IF startIndex # None THEN {"startIndex"} ELSE {"dateFin"}),
     grandeFamilleCode |-> obj.grandeFamilleCode,
     compteIdx |-> obj.compteIdx,
     idDevise |-> "EUR",
     dateDebut |-> Timestamp(obj.date_start),
     startIndex |-> IF startIndex # None THEN Quote(startIndex) ELSE "",
     dateFin |-> IF startIndex # None THEN 0 ELSE Timestamp(obj.date_stop),
     count |-> limit]

\* Mutant of WrapListeOperations: the envelope says that more follows.
WrapListeOperations_SaysMore(doc) ==
    Doc("object", doc.shape = "array", doc.items, "true", "X")

\* data = "{ \"listeOperations\": " + data + "}"
WrapListeOperations(doc) ==
    IF doc.shape = "array" THEN ObjectDoc(TRUE, doc.items, "absent", NoCursor)
    ELSE InvalidDoc

\* Mutant of Continues: an empty page is taken to be the last one.
Continues_UntilEmptyPage(nextCount, rsp) ==
    /\ nextCount > 0
    /\ rsp.next # NoCursor
    /\ rsp.hasNext = "true"
    /\ rsp.items # <<>>

\* nextCount > 0 and 'nextSetStartIndex' in rsp and 'hasNext' in rsp
\*   and rsp['hasNext'] is True
Continues(nextCount, rsp) ==
    /\ nextCount > 0
    /\ rsp.next # NoCursor
    /\ rsp.hasNext # "absent"
    /\ rsp.hasNext = "true"

\* sleep is not None and (isinstance(sleep, int) or isinstance(sleep, float))
ShouldSleep(sleep) == sleep.isNum

\* The arguments of the recursive call self.get_operations(nextCount,
\* rsp["nextSetStartIndex"]): limit and sleep take their defaults.
RecursiveFrame(nextCount, rsp) ==
    [count |-> nextCount, startIndex |-> rsp.next, limit |-> DefaultLimit,
     sleep |-> NoSleep]

NoFrame == [count |-> 0, startIndex |-> None, limit |-> 0, sleep |-> NoSleep]

-----------------------------------------------------------------------------
(* The remote server *)

ErrorBody == Doc("html", FALSE, <<>>, "absent", NoCursor)

Response(status, text) == [status |-> status, text |-> text]

\* The cursor the server names in its k-th page, when it names one.
CursorOf(k) == Cursors[((k - 1) % Len(Cursors)) + 1]

\* Bodies of a 200 answer of the windowed endpoint to the k-th GET.
HasNexts == {"absent", "true", "false"}
OperationsBodies(k) ==
    {ObjectDoc(TRUE, items, hn, nx) :
        items \in PageItems(k), hn \in HasNexts, nx \in {CursorOf(k), NoCursor}}
    \cup {ObjectDoc(FALSE, <<>>, "absent", NoCursor), InvalidDoc}

\* Bodies of a 200 answer of the deferred-card endpoint.
DeferredBodies == {ArrayDoc(items) : items \in PageItems(1)} \cup {InvalidDoc}

OperationsResponses(k) ==
    {Response(HttpOk, b) : b \in OperationsBodies(k)}
    \cup {Response(ErrorStatus, ErrorBody)}
DeferredResponses ==
    {Response(HttpOk, b) : b \in DeferredBodies} \cup {Response(ErrorStatus, ErrorBody)}

-----------------------------------------------------------------------------
(* Events of the trace *)

GetEvent(url, fr) == [ev |-> "get", url |-> url, frame |-> fr]
ResponseEvent(r) == [ev |-> "response", status |-> r.status, text |-> r.text]
ReadEvent(name, found, fr) ==
    [ev |-> "read", name |-> name, found |-> found, frame |-> fr]
WriteEvent(name, data) == [ev |-> "write", name |-> name, data |-> data]
SleepEvent(secs) == [ev |-> "sleep", secs |-> secs]
PageEvent(fr, rsp) == [ev |-> "page", frame |-> fr, rsp |-> rsp]

-----------------------------------------------------------------------------
(* Initial state and entry points *)

\* The object has no attribute n until __iter__ sets it.
NoAttribute == -1

NoSelf == [compteIdx |-> "", grandeFamilleCode |-> "", carteIdx |-> "",
           date_start |-> Date(0, 0, 0), date_stop |-> Date(0, 0, 0),
           n |-> NoAttribute]

\* How an earlier constructor call with the same arguments ended, when the
\* caller repeats it.
NoEarlier == [pc |-> "none", list |-> <<>>, error |-> NoError]
Outcome == [pc |-> pc, list |-> list_operations, error |-> error]

NoCall == [via |-> "none", count |-> 0, limit |-> 0, sleep |-> NoSleep,
           before |-> <<>>, earlier |-> NoEarlier]

\* No object exists yet.  The session flags and suffixes are fixed for the
\* behaviour; the store holds fixtures only in replay sessions, and then only
\* under the names replay reads.
Init ==
    /\ session \in {c \in [useMocks : BOOLEAN, writeMocks : BOOLEAN,
                          useMockSuffix : {"mock"}, writeMockSuffix : Suffixes] :
                        ~c.writeMocks => c.writeMockSuffix = "rec"}
    /\ fixtures \in {f \in [FixtureNames -> FixtureContents] :
                        \A n \in FixtureNames :
                            f[n] # NoDoc =>
                                /\ session.useMocks
                                /\ n \in {MockFileName(AccountMockFileBase(TheObject), "mock"),
                                          MockFileName(CardMockFileBase(TheObject), "mock")}}
    /\ kind = "none"
    /\ self = NoSelf
    /\ list_operations = <<>>
    /\ frame = NoFrame
    /\ pc = "idle"
    /\ error = NoError
    /\ trace = <<>>
    /\ call = NoCall

\* The caller holds a reference to the object: its constructor returned.
Held == kind # "none" /\ (pc = "returned" \/ (pc = "raised" /\ call.via = "call"))

\* Number of GETs issued so far in the current top-level call.
Gets == Len(SelectSeq(trace, LAMBDA e : e.ev = "get"))

\* Mutant of ConstructOperations: list_operations is a list shared by the
\* objects of the class, which the constructor does not replace.
ConstructOperations_SharedList(count, sleep, dates, earlier) ==
    /\ kind' = "Operations"
    /\ self' = [compteIdx |-> TheObject.compteIdx,
                grandeFamilleCode |-> TheObject.grandeFamilleCode,
                carteIdx |-> "",
                date_start |-> dates[1], date_stop |-> dates[2],
                n |-> NoAttribute]
    /\ list_operations' = list_operations
    /\ frame' = [count |-> count, startIndex |-> None, limit |-> DefaultLimit,
                 sleep |-> sleep]
    /\ call' = [via |-> "init", count |-> count,
                limit |-> DefaultLimit, sleep |-> sleep, before |-> <<>>,
                earlier |-> earlier]
    /\ pc' = "enter"
    /\ error' = NoError
    /\ trace' = <<>>
    /\ UNCHANGED <<session, fixtures>>

\* The body of Operations.__init__: the fields, the empty list, and the call
\* self.get_operations(count=count, sleep=sleep).
ConstructOperations(count, sleep, dates, earlier) ==
    /\ kind' = "Operations"
    /\ self' = [compteIdx |-> TheObject.compteIdx,
                grandeFamilleCode |-> TheObject.grandeFamilleCode,
                carteIdx |-> "",
                date_start |-> dates[1], date_stop |-> dates[2],
                n |-> NoAttribute]
    /\ list_operations' = <<>>
    /\ frame' = [count |-> count, startIndex |-> None, limit |-> DefaultLimit,
                 sleep |-> sleep]
    /\ call' = [via |-> "init", count |-> count,
                limit |-> DefaultLimit, sleep |-> sleep, before |-> <<>>,
                earlier |-> earlier]
    /\ pc' = "enter"
    /\ error' = NoError
    /\ trace' = <<>>
    /\ UNCHANGED <<session, fixtures>>

\* Operations(session, compteIdx, grandeFamilleCode, date_start, date_stop,
\*            count, sleep)
NewOperations(count, sleep, dates) ==
    /\ pc = "idle"
    /\ ConstructOperations(count, sleep, dates, NoEarlier)

\* The caller, in a replay session, constructs Operations again with the
\* arguments of the constructor call that has just ended.
RepeatOperations ==
    /\ kind = "Operations"
    /\ pc \in {"returned", "raised"}
    /\ session.useMocks
    /\ call.via = "init"
    /\ call.earlier = NoEarlier
    /\ ConstructOperations(call.count, call.sleep, <<self.date_start, self.date_stop>>,
                           Outcome)

\* A further call ops.get_operations(count, limit=limit, sleep=sleep) on an
\* Operations object the caller holds.
CallGetOperations(count, limit, sleep) ==
    /\ Held
    /\ kind = "Operations"
    /\ call.via = "init"
    /\ Len(list_operations) <= MaxPrior
    /\ frame' = [count |-> count, startIndex |-> None, limit |-> limit, sleep |-> sleep]
    /\ call' = [via |-> "call", count |-> count, limit |-> limit,
                sleep |-> sleep, before |-> list_operations, earlier |-> NoEarlier]
    /\ pc' = "enter"
    /\ error' = NoError
    /\ trace' = <<>>
    /\ UNCHANGED <<session, fixtures, kind, self, list_operations>>

\* The body of DeferredOperations.__init__.
ConstructDeferredOperations(earlier) ==
    /\ kind' = "DeferredOperations"
    /\ self' = [compteIdx |-> TheObject.compteIdx,
                grandeFamilleCode |-> TheObject.grandeFamilleCode,
                carteIdx |-> TheObject.carteIdx,
                date_start |-> Date(0, 0, 0), date_stop |-> Date(0, 0, 0),
                n |-> NoAttribute]
    /\ list_operations' = <<>>
    /\ frame' = NoFrame
    /\ call' = [via |-> "init", count |-> 0, limit |-> 0,
                sleep |-> NoSleep, before |-> <<>>, earlier |-> earlier]
    /\ pc' = "enter"
    /\ error' = NoError
    /\ trace' = <<>>
    /\ UNCHANGED <<session, fixtures>>

\* DeferredOperations(session, compteIdx, grandeFamilleCode, carteIdx)
NewDeferredOperations ==
    /\ pc = "idle"
    /\ ConstructDeferredOperations(NoEarlier)

\* The same, for DeferredOperations.
RepeatDeferredOperations ==
    /\ kind = "DeferredOperations"
    /\ pc \in {"returned", "raised"}
    /\ session.useMocks
    /\ call.via = "init"
    /\ call.earlier = NoEarlier
    /\ ConstructDeferredOperations(Outcome)

-----------------------------------------------------------------------------
(* Operations.get_operations *)

\* Mutant of Raised: the exception is caught and the call returns what it has.
Raised_Swallowed(err, tr, list) ==
    /\ pc' = "returned"
    /\ error' = NoError
    /\ trace' = tr
    /\ list_operations' = list
    /\ frame' = NoFrame

\* An exception leaves get_operations (and __init__, when it is the caller).
Raised(err, tr, list) ==
    /\ pc' = "raised"
    /\ error' = err
    /\ trace' = tr
    /\ list_operations' = list
    /\ frame' = NoFrame

\* Mutant of DecodeError: rsp.get("listeOperations", []) in place of the
\* subscript.
DecodeError_MissingListIsEmpty(data) ==
    IF data.shape \notin {"object", "array"} THEN "JSONDecodeError" ELSE "none"

\* json.loads(data)["listeOperations"]
DecodeError(data) ==
    IF data.shape \notin {"object", "array"} THEN "JSONDecodeError"
    ELSE IF ~data.hasList THEN "KeyError"
    ELSE "none"

\* rsp = json.loads(data); the append loop; the decision to go on, the sleep
\* and the recursive call.
SaveListOperations(data, tr) ==
    LET nextCount == NextCount(frame.count, frame.limit)
        tr1 == Append(tr, PageEvent(frame, data))
    IN IF DecodeError(data) # "none"
       THEN Raised(Raise(DecodeError(data)), tr, list_operations)
       ELSE IF FirstIncomplete(data.items) # 0
       THEN Raised(Raise("KeyError"), tr, AppendOperations(list_operations, data.items))
       ELSE /\ list_operations' = AppendOperations(list_operations, data.items)
            /\ error' = NoError
            /\ IF Continues(nextCount, data)
               THEN /\ trace' = IF ShouldSleep(frame.sleep)
                                THEN Append(tr1, SleepEvent(frame.sleep.secs))
                                ELSE tr1
                    /\ frame' = RecursiveFrame(nextCount, data)
                    /\ pc' = "enter"
               ELSE /\ trace' = tr1
                    /\ frame' = NoFrame
                    /\ pc' = "returned"

\* Mutant of OperationsReplay: an absent fixture falls through to the live
\* branch.
OperationsReplay_FallsBackToGet ==
    /\ pc = "enter"
    /\ kind = "Operations"
    /\ session.useMocks
    /\ LET name == MockFileName(AccountMockFileBase(self), session.useMockSuffix)
           found == ReadFound(fixtures, name)
           tr == Append(trace, ReadEvent(name, found, frame))
       IN IF ~found
          THEN /\ trace' = Append(tr, GetEvent(Url(self, frame.startIndex, frame.limit),
                                               frame))
               /\ pc' = "await"
               /\ UNCHANGED <<list_operations, frame, error>>
          ELSE SaveListOperations(WrapListeOperations(ReadJsonMock(fixtures, name)), tr)
    /\ UNCHANGED <<session, fixtures, kind, self, call>>

\* if self.session.useMocks: read_json_mock, wrap, decode, append.
OperationsReplay ==
    /\ pc = "enter"
    /\ kind = "Operations"
    /\ session.useMocks
    /\ LET name == MockFileName(AccountMockFileBase(self), session.useMockSuffix)
           found == ReadFound(fixtures, name)
           tr == Append(trace, ReadEvent(name, found, frame))
       IN IF ~found
          THEN Raised(Raise("FileNotFoundError"), tr, list_operations)
          ELSE SaveListOperations(WrapListeOperations(ReadJsonMock(fixtures, name)), tr)
    /\ UNCHANGED <<session, fixtures, kind, self, call>>

\* else: build the url and issue requests.get
OperationsGet ==
    /\ pc = "enter"
    /\ kind = "Operations"
    /\ ~session.useMocks
    /\ trace' = Append(trace, GetEvent(Url(self, frame.startIndex, frame.limit), frame))
    /\ pc' = "await"
    /\ UNCHANGED <<session, fixtures, kind, self, list_operations, frame, error, call>>

\* Mutant of StatusOk: the status is not looked at.
StatusOk_Unchecked(r) == TRUE

\* r.status_code != 200 is the failure test.
StatusOk(r) == r.status = HttpOk

\* Mutant of OperationsMockData: what is handed over is everything
\* retrieved so far, the new page included.
OperationsMockData_Accumulated(data) ==
    Handed("list",
           ArrayDoc([i \in 1..Len(list_operations) |-> list_operations[i].descr]
                    \o data.items))

\* The operations_data handed to write_json_mock.
OperationsMockData(data) == Handed("list", ArrayDoc(data.items))

\* The response arrives: status check, write_json_mock, then the common tail.
OperationsResponse(r) ==
    /\ pc = "await"
    /\ kind = "Operations"
    /\ LET tr == Append(trace, ResponseEvent(r))
           name == MockFileName(AccountMockFileBase(self), session.writeMockSuffix)
       IN IF ~StatusOk(r)
          THEN /\ Raised([type |-> "Exception", status |-> r.status, text |-> r.text],
                         tr, list_operations)
               /\ UNCHANGED fixtures
          ELSE IF session.writeMocks
          THEN IF DecodeError(r.text) # "none"
               THEN /\ Raised(Raise(DecodeError(r.text)), tr, list_operations)
                    /\ UNCHANGED fixtures
               ELSE /\ fixtures' = WriteJsonMock(fixtures, name, OperationsMockData(r.text))
                    /\ SaveListOperations(r.text,
                           Append(tr, WriteEvent(name, OperationsMockData(r.text))))
          ELSE /\ SaveListOperations(r.text, tr)
               /\ UNCHANGED fixtures
    /\ UNCHANGED <<session, kind, self, call>>

\* The server answers the GET in flight.
OperationsReceive == \E r \in OperationsResponses(Gets) : OperationsResponse(r)

-----------------------------------------------------------------------------
(* DeferredOperations.get_operations *)

DeferredUrl(obj) ==
    [resource |-> "operations.encours.carte.debit.differe",
     params |-> {"grandeFamilleCode", "compteIdx", "carteIdx"},
     grandeFamilleCode |-> obj.grandeFamilleCode,
     compteIdx |-> obj.compteIdx,
     carteIdx |-> obj.carteIdx]

\* The data handed to write_json_mock: the text read or received.
DeferredMockData(data) == Handed("text", data)

\* Mutant of DeferredSave: a full page is taken to mean that more follows, as
\* in the windowed retrieval.
DeferredSave_Repeats(data, tr) ==
    LET name == MockFileName(CardMockFileBase(self), session.writeMockSuffix)
        tr1 == IF session.writeMocks
               THEN Append(tr, WriteEvent(name, DeferredMockData(data)))
               ELSE tr
        tr2 == Append(tr1, PageEvent(frame, data))
    IN /\ fixtures' = IF session.writeMocks
                      THEN WriteJsonMock(fixtures, name, DeferredMockData(data))
                      ELSE fixtures
       /\ IF data.shape # "array"
          THEN Raised(Raise("JSONDecodeError"), tr1, list_operations)
          ELSE IF FirstIncomplete(data.items) # 0
          THEN Raised(Raise("KeyError"), tr1, AppendOperations(list_operations, data.items))
          ELSE /\ list_operations' = AppendOperations(list_operations, data.items)
               /\ error' = NoError
               /\ trace' = tr2
               /\ frame' = NoFrame
               /\ pc' = IF Len(data.items) = MaxPageLen /\ Len(list_operations) = 0
                        THEN "enter" ELSE "returned"

\* if self.session.writeMocks: write_json_mock; then
\* for op in json.loads(data): self.list_operations.append(Operation(op))
DeferredSave(data, tr) ==
    LET name == MockFileName(CardMockFileBase(self), session.writeMockSuffix)
        tr1 == IF session.writeMocks
               THEN Append(tr, WriteEvent(name, DeferredMockData(data)))
               ELSE tr
        tr2 == Append(tr1, PageEvent(frame, data))
    IN /\ fixtures' = IF session.writeMocks
                      THEN WriteJsonMock(fixtures, name, DeferredMockData(data))
                      ELSE fixtures
       /\ IF data.shape # "array"
          THEN Raised(Raise("JSONDecodeError"), tr1, list_operations)
          ELSE IF FirstIncomplete(data.items) # 0
          THEN Raised(Raise("KeyError"), tr1, AppendOperations(list_operations, data.items))
          ELSE /\ list_operations' = AppendOperations(list_operations, data.items)
               /\ error' = NoError
               /\ trace' = tr2
               /\ frame' = NoFrame
               /\ pc' = "returned"

DeferredReplay ==
    /\ pc = "enter"
    /\ kind = "DeferredOperations"
    /\ session.useMocks
    /\ LET name == MockFileName(CardMockFileBase(self), session.useMockSuffix)
           found == ReadFound(fixtures, name)
           tr == Append(trace, ReadEvent(name, found, frame))
       IN IF ~found
          THEN /\ Raised(Raise("FileNotFoundError"), tr, list_operations)
               /\ UNCHANGED fixtures
          ELSE DeferredSave(ReadJsonMock(fixtures, name), tr)
    /\ UNCHANGED <<session, kind, self, call>>

DeferredGet ==
    /\ pc = "enter"
    /\ kind = "DeferredOperations"
    /\ ~session.useMocks
    /\ trace' = Append(trace, GetEvent(DeferredUrl(self), frame))
    /\ pc' = "await"
    /\ UNCHANGED <<session, fixtures, kind, self, list_operations, frame, error, call>>

DeferredResponse(r) ==
    /\ pc = "await"
    /\ kind = "DeferredOperations"
    /\ LET tr == Append(trace, ResponseEvent(r))
       IN IF ~StatusOk(r)
          THEN /\ Raised([type |-> "Exception", status |-> r.status, text |-> r.text],
                         tr, list_operations)
               /\ UNCHANGED fixtures
          ELSE DeferredSave(r.text, tr)
    /\ UNCHANGED <<session, kind, self, call>>

DeferredReceive == \E r \in DeferredResponses : DeferredResponse(r)

-----------------------------------------------------------------------------

Next ==
    \/ \E c \in Counts, s \in Sleeps, d \in DateRanges : NewOperations(c, s, d)
    \/ \E c \in Counts, l \in Limits, s \in Sleeps : CallGetOperations(c, l, s)
    \/ NewDeferredOperations
    \/ OperationsReplay
    \/ OperationsGet
    \/ OperationsReceive
    \/ DeferredReplay
    \/ DeferredGet
    \/ DeferredReceive

Spec == Init /\ [][Next]_vars

\* The same program with a caller that may run a replay retrieval twice.
NextTwice ==
    \/ Next
    \/ RepeatOperations
    \/ RepeatDeferredOperations

SpecTwice == Init /\ [][NextTwice]_vars

\* Live windowed retrievals over date ranges that cross a year end, a leap
\* day and a month end, in either order.
DateSet == {Date(2023, 12, 31), Date(2024, 1, 1), Date(2024, 2, 28),
            Date(2024, 2, 29), Date(2024, 3, 1)}

InitDates == Init /\ ~session.useMocks /\ ~session.writeMocks

NextDates ==
    \/ \E c \in {50, 70}, a \in DateSet, b \in DateSet :
            NewOperations(c, NoSleep, <<a, b>>)
    \/ OperationsGet
    \/ OperationsReceive

SpecDates == InitDates /\ [][NextDates]_vars

\* The retrievals started by a constructor, whose result as_json dumps.
NextConstructed ==
    \/ \E c \in Counts, s \in Sleeps, d \in DateRanges : NewOperations(c, s, d)
    \/ NewDeferredOperations
    \/ OperationsReplay
    \/ OperationsGet
    \/ OperationsReceive
    \/ DeferredReplay
    \/ DeferredGet
    \/ DeferredReceive

SpecConstructed == Init /\ [][NextConstructed]_vars

-----------------------------------------------------------------------------
(* __iter__, __next__ and __len__, of Operations and of DeferredOperations *)

\* The caller runs up to two iteration passes over the object it holds: an
\* outer one and, begun after it, an inner one.
PassIds == {"outer", "inner"}

IterEvent(pass) == [ev |-> "iter", pass |-> pass]
NextEvent(pass, stop, op) == [ev |-> "next", pass |-> pass, stop |-> stop, op |-> op]
NoOperation == Operation(RawEntry(0, 0, FALSE))

Started(pass) == \E i \in 1..Len(trace) : trace[i].ev = "iter" /\ trace[i].pass = pass
Stopped(pass) ==
    \E i \in 1..Len(trace) :
        trace[i].ev = "next" /\ trace[i].pass = pass /\ trace[i].stop

__len__ == Len(list_operations)

\* Mutant of __iter__: n is set only when the object has none yet.
__iter___KeepsPosition(pass) ==
    /\ Held
    /\ ~Started(pass)
    /\ pass = "inner" => Started("outer")
    /\ self' = [self EXCEPT !.n = IF self.n = NoAttribute THEN 0 ELSE self.n]
    /\ trace' = Append(trace, IterEvent(pass))
    /\ UNCHANGED <<session, fixtures, kind, list_operations, frame, pc, error, call>>

\* iter(ops): self.n = 0; return self
__iter__(pass) ==
    /\ Held
    /\ ~Started(pass)
    /\ pass = "inner" => Started("outer")
    /\ self' = [self EXCEPT !.n = 0]
    /\ trace' = Append(trace, IterEvent(pass))
    /\ UNCHANGED <<session, fixtures, kind, list_operations, frame, pc, error, call>>

\* next(it), for a pass that has begun and has not seen StopIteration: both
\* passes hold the same object, so both read and advance self.n.
__next__(pass) ==
    /\ Held
    /\ Started(pass)
    /\ ~Stopped(pass)
    /\ IF self.n < __len__
       THEN /\ self' = [self EXCEPT !.n = self.n + 1]
            /\ trace' = Append(trace, NextEvent(pass, FALSE, list_operations[self.n + 1]))
       ELSE /\ trace' = Append(trace, NextEvent(pass, TRUE, NoOperation))
            /\ UNCHANGED self
    /\ UNCHANGED <<session, fixtures, kind, list_operations, frame, pc, error, call>>

\* One-page retrievals started by a constructor, and iteration over their
\* result.
NextIterated ==
    \/ \E d \in DateRanges : NewOperations(1, NoSleep, d)
    \/ NewDeferredOperations
    \/ OperationsReplay
    \/ OperationsGet
    \/ OperationsReceive
    \/ DeferredReplay
    \/ DeferredGet
    \/ DeferredReceive
    \/ \E pass \in PassIds : __iter__(pass)
    \/ \E pass \in PassIds : __next__(pass)

SpecIterated == Init /\ [][NextIterated]_vars

\* A call that has begun runs on in the calling thread, and every GET
\* returns: the steps of get_operations and the arrival of the answer are
\* taken when they can be.
SpecFair ==
    /\ Spec
    /\ WF_vars(OperationsReplay)
    /\ WF_vars(OperationsGet)
    /\ WF_vars(OperationsReceive)

-----------------------------------------------------------------------------
(* Reading the trace *)

Indices(ev) == {i \in 1..Len(trace) : trace[i].ev = ev}
GetIdx == Indices("get")
FetchIdx == Indices("get") \cup Indices("read")
PageIdx == Indices("page")
Fetches == Cardinality(FetchIdx)

\* The page events of the current call, in order.
Pages == SelectSeq(trace, LAMBDA e : e.ev = "page")

RECURSIVE ConcatItems(_)
ConcatItems(ps) ==
    IF ps = <<>> THEN <<>>
    ELSE [i \in 1..Len(Head(ps).rsp.items) |-> Operation(Head(ps).rsp.items[i])]
         \o ConcatItems(Tail(ps))

Ceil(a, b) == (a + b - 1) \div b

Windowed == kind = "Operations"
Live == ~session.useMocks
SaysMore(rsp) == rsp.hasNext = "true" /\ rsp.next # NoCursor

-----------------------------------------------------------------------------
(* C1-C10 *)

\* C1: a live windowed retrieval of count C with page cap P (the limit
\* argument) that has returned issued exactly ceil(C / P) GETs when every
\* page said hasNext = true with a nextSetStartIndex, and never more than
\* ceil(C / P) GETs otherwise.
C1_FetchCountIsCeil ==
    (Windowed /\ Live /\ pc = "returned") =>
        /\ Fetches <= Ceil(call.count, call.limit)
        /\ (\A i \in PageIdx : SaysMore(trace[i].rsp)) =>
                Fetches = Ceil(call.count, call.limit)

\* The page at index i ends the retrieval, by the rule of C2.
C2_Ends(i) ==
    \/ trace[i].frame.count - call.limit <= 0
    \/ ~SaysMore(trace[i].rsp)
\* The Fetching state entered after the event at index i: that of the next
\* fetch, or the frame about to fetch.
C2_Later(i) == {j \in FetchIdx : j > i}
C2_NextState(i) ==
    IF C2_Later(i) # {}
    THEN trace[CHOOSE j \in C2_Later(i) : \A k \in C2_Later(i) : j <= k].frame
    ELSE frame

\* C2: after each decoded page fetched in state Fetching(R, cursor), with P
\* the page cap of the retrieval, the retrieval has ended successfully when
\* R - P <= 0 or the page does not say hasNext = true or names no
\* nextSetStartIndex; otherwise the next state is Fetching(R - P, the
\* page's nextSetStartIndex).
C2_Transition ==
    Windowed =>
        \A i \in PageIdx :
            IF C2_Ends(i)
            THEN C2_Later(i) = {} /\ pc = "returned"
            ELSE /\ C2_Later(i) # {} \/ pc = "enter"
                 /\ C2_NextState(i).count = trace[i].frame.count - call.limit
                 /\ C2_NextState(i).startIndex = trace[i].rsp.next

\* C3: when a windowed retrieval returns, the records it added to the
\* accumulator are the entries of the pages it fetched, page after page in
\* fetch order and each page in response order; a retrieval started by the
\* constructor returns exactly that sequence.
C3_ConcatenationOfPages ==
    (Windowed /\ pc = "returned") =>
        list_operations = call.before \o ConcatItems(Pages)
C3_Witness ==
    /\ Windowed /\ pc = "returned" /\ call.via = "init"
    /\ Len(Pages) = 3
    /\ \A i \in 1..3 : Len(Pages[i].rsp.items) = 2
    /\ Len(list_operations) = 6

\* The page decoded last before the event at index i.
PrevPage(i) == trace[CHOOSE j \in PageIdx : j < i /\ \A k \in PageIdx : k < i => k <= j]
FirstGet == CHOOSE i \in GetIdx : \A k \in GetIdx : i <= k

C5_SleepBetween(i, j) ==
    \E k \in Indices("sleep") : i < k /\ k < j /\ trace[k].secs = call.sleep.secs

\* C5: in a retrieval whose sleep argument is a number, a suspension of that
\* duration lies between every two consecutive fetches; in one whose sleep
\* argument is None there is no suspension.
C5_SleepBetweenAllFetches ==
    Windowed =>
        /\ call.sleep.isNum =>
              \A i, j \in FetchIdx : i < j => C5_SleepBetween(i, j)
        /\ ~call.sleep.isNum => Indices("sleep") = {}

Min(a, b) == IF a <= b THEN a ELSE b

\* C6: the count parameter of the first GET of a windowed retrieval is
\* min(requested count, page size limit).
C6_FirstCountIsMin ==
    (Windowed /\ GetIdx # {}) =>
        trace[FirstGet].url.count = Min(call.count, call.limit)

ReadName ==
    MockFileName(IF Windowed THEN AccountMockFileBase(self) ELSE CardMockFileBase(self),
                 session.useMockSuffix)
WriteName ==
    MockFileName(IF Windowed THEN AccountMockFileBase(self) ELSE CardMockFileBase(self),
                 session.writeMockSuffix)

\* C8: replay and record are independent, for both retrievals: a retrieval
\* that returns has read the fixture named with useMockSuffix exactly when
\* useMocks is set, and has written the fixture named with writeMockSuffix
\* exactly when writeMocks is set.
C8_IndependentToggles ==
    (kind # "none" /\ pc = "returned") =>
        /\ session.useMocks <=> (\E i \in Indices("read") : trace[i].name = ReadName)
        /\ session.writeMocks <=> (\E i \in Indices("write") : trace[i].name = WriteName)

\* C9: every write to the fixture store, of either retrieval, hands over
\* the decoded list of the page's entries under the name built with
\* writeMockSuffix, right after a successful live fetch of that page.
C9_WritesDecodedListAfterLiveFetch ==
    \A i \in Indices("write") :
        /\ trace[i].data.form = "list"
        /\ trace[i].name = WriteName
        /\ i > 1
        /\ trace[i - 1].ev = "response"
        /\ trace[i - 1].status = HttpOk

-----------------------------------------------------------------------------
(* C11-C20 *)

LastFetch == CHOOSE i \in FetchIdx : \A j \in FetchIdx : j <= i
\* The call is over and its last fetch yielded no page: the fetch, the
\* decoding of its answer or the construction of its records failed.
FetchFailed ==
    /\ pc \in {"returned", "raised"}
    /\ FetchIdx # {}
    /\ \A j \in PageIdx : j < LastFetch

\* C11: when a page fetch fails after earlier pages were accumulated, the
\* call ends with an error and hands over no collection: a constructor that
\* fails leaves the caller without an object, so the records of the earlier
\* pages are not returned as a partial list.
C11_ErrorAndNoCollection ==
    (FetchFailed /\ Pages # <<>>) =>
        /\ pc = "raised"
        /\ error # NoError
        /\ call.via = "init" => ~Held
C11_Witness ==
    /\ FetchFailed /\ Len(Pages) = 2
    /\ call.via = "init"
    /\ Len(list_operations) >= 2
    /\ error.type = "Exception"
    /\ ~Held

\* C12: in replay mode a retrieval whose fixture is absent ends with the
\* store's not-found error, and the lookup is the only effect of the call:
\* no GET, no record appended, no further lookup, no page.
C12_MissingFixtureIsFatal ==
    \A i \in Indices("read") :
        ~trace[i].found =>
            /\ Len(trace) = 1
            /\ pc = "raised"
            /\ error.type = "FileNotFoundError"
            /\ list_operations = call.before
C12_Witness ==
    /\ Windowed /\ session.useMocks
    /\ pc = "raised"
    /\ Len(trace) = 1
    /\ trace[1].ev = "read" /\ trace[1].name = ReadName /\ ~trace[1].found
    /\ error.type = "FileNotFoundError"

\* C13: a successful windowed response whose decoded body has no
\* listeOperations member ends the retrieval with a KeyError at once: it is
\* the last effect of the call, so no fixture is written for it and no page
\* is fetched after it, and no record of that page is appended.
C13_MissingListIsFatal ==
    Windowed =>
        \A i \in Indices("response") :
            (trace[i].status = HttpOk /\ trace[i].text.shape = "object"
                /\ ~trace[i].text.hasList) =>
                /\ i = Len(trace)
                /\ pc = "raised"
                /\ error.type = "KeyError"
                /\ list_operations = call.before \o ConcatItems(Pages)
C13_Witness ==
    /\ Windowed /\ session.writeMocks /\ pc = "raised"
    /\ Len(Pages) = 1
    /\ trace[Len(trace)].ev = "response"
    /\ trace[Len(trace)].status = HttpOk
    /\ ~trace[Len(trace)].text.hasList
    /\ Cardinality(Indices("write")) = 1
    /\ error.type = "KeyError"

C15_OwnAccumulator ==
    (kind # "none" /\ pc = "returned") => list_operations = ConcatItems(Pages)

\* C16: in a replay session that writes no fixture, a retrieval repeated
\* with the same arguments ends as the first did: the same records in the
\* same order, or the same error.
C16_ReplayIsRepeatable ==
    (call.earlier # NoEarlier /\ ~session.writeMocks /\ pc \in {"returned", "raised"}) =>
        /\ pc = call.earlier.pc
        /\ list_operations = call.earlier.list
        /\ error = call.earlier.error
C16_Witness ==
    /\ Windowed /\ call.earlier # NoEarlier
    /\ ~session.writeMocks
    /\ pc = "returned"
    /\ Len(call.earlier.list) = 2
    /\ list_operations = call.earlier.list

-----------------------------------------------------------------------------
(* as_json: json.dumps of the raw entries, and json.loads of that text *)

\* Decoded JSON values.  A string is a sequence of units, each a run of
\* plain characters or one character that JSON escapes; a float is the
\* decimal n / 10^dec that repr prints for it.
JStr(units) == [k |-> "str", chars |-> units, n |-> 0, dec |-> 0]
JInt(n) == [k |-> "int", chars |-> <<>>, n |-> n, dec |-> 0]
JFloat(mant, dec) == [k |-> "float", chars |-> <<>>, n |-> mant, dec |-> dec]
JBool(b) == [k |-> IF b THEN "true" ELSE "false", chars |-> <<>>, n |-> 0, dec |-> 0]
JNull == [k |-> "null", chars |-> <<>>, n |-> 0, dec |-> 0]

\* The dict an entry handle stands for, as the pairs of its members in
\* document order: the three fields Operation reads (montant is missing from
\* an incomplete entry) and members Operation does not read.
EntryDict(e) ==
    <<<<"dateOperation", JStr(<<"2024-02-2", ToString(e.pos)>>)>>,
      <<"libelleOperation", JStr(<<"CB ", "\"", "\\", "\n", "n">>)>>>>
    \o (IF e.complete
        THEN <<<<"montant", JFloat(-(1000 * e.page + 105 * e.pos + 1), 2 - (e.pos % 2))>>>>
        ELSE <<>>)
    \o <<<<"fitid", JInt(e.page - e.pos)>>,
         <<"solde", JFloat(10 * e.pos, 1)>>,
         <<"pointe", JBool(e.pos = 1)>>,
         <<"referenceClient", JNull>>>>

Abs(n) == IF n < 0 THEN -n ELSE n
RECURSIVE Pow10(_)
Pow10(k) == IF k = 0 THEN 1 ELSE 10 * Pow10(k - 1)

DigitChars == <<"0", "1", "2", "3", "4", "5", "6", "7", "8", "9">>
DigitVal(c) == (CHOOSE i \in 1..Len(DigitChars) : DigitChars[i] = c) - 1

RECURSIVE NatDigits(_)
NatDigits(n) ==
    IF n < Len(DigitChars) THEN <<DigitChars[n + 1]>>
    ELSE NatDigits(n \div Len(DigitChars)) \o <<DigitChars[(n % Len(DigitChars)) + 1]>>

\* The k low digits of f, with leading zeros.
RECURSIVE FracDigits(_, _)
FracDigits(f, k) ==
    IF k = 0 THEN <<>>
    ELSE FracDigits(f \div Len(DigitChars), k - 1)
            \o <<DigitChars[(f % Len(DigitChars)) + 1]>>

RECURSIVE DigitsNat(_)
DigitsNat(ds) ==
    IF ds = <<>> THEN 0
    ELSE DigitsNat(SubSeq(ds, 1, Len(ds) - 1)) * Len(DigitChars) + DigitVal(ds[Len(ds)])

Sign(n) == IF n < 0 THEN <<"-">> ELSE <<>>

\* The text json.dumps writes for a number.
NumberText(v) ==
    IF v.k = "int" THEN Sign(v.n) \o NatDigits(Abs(v.n))
    ELSE Sign(v.n) \o NatDigits(Abs(v.n) \div Pow10(v.dec)) \o <<".">>
            \o FracDigits(Abs(v.n) % Pow10(v.dec), v.dec)

\* The number json.loads reads from that text.
ParseNumber(txt) ==
    LET neg == txt[1] = "-"
        ds == IF neg THEN Tail(txt) ELSE txt
        dots == {i \in 1..Len(ds) : ds[i] = "."}
        mag(d) == IF neg THEN -DigitsNat(d) ELSE DigitsNat(d)
    IN IF dots = {} THEN JInt(mag(ds))
       ELSE LET p == CHOOSE i \in dots : TRUE
            IN JFloat(mag(SubSeq(ds, 1, p - 1) \o SubSeq(ds, p + 1, Len(ds))),
                     Len(ds) - p)

\* json.dumps escapes the quote, the backslash and control characters.
EscapeUnit(u) ==
    IF u = "\"" THEN <<"\\", "\"">>
    ELSE IF u = "\\" THEN <<"\\", "\\">>
    ELSE IF u = "\n" THEN <<"\\", "n">>
    ELSE <<u>>
RECURSIVE Escape(_)
Escape(units) ==
    IF units = <<>> THEN <<>> ELSE EscapeUnit(Head(units)) \o Escape(Tail(units))

RECURSIVE Unescape(_)
Unescape(txt) ==
    IF txt = <<>> THEN <<>>
    ELSE IF Head(txt) = "\\"
    THEN <<IF txt[2] = "n" THEN "\n" ELSE txt[2]>> \o Unescape(Tail(Tail(txt)))
    ELSE <<Head(txt)>> \o Unescape(Tail(txt))

\* A JSON text is a sequence of tokens.
Token(t, txt) == [t |-> t, s |-> txt]
Punct(t) == Token(t, <<>>)

DumpValue(v) ==
    IF v.k = "str" THEN Token("string", Escape(v.chars))
    ELSE IF v.k \in {"int", "float"} THEN Token("number", NumberText(v))
    ELSE Punct(v.k)

ParseValue(tok) ==
    IF tok.t = "string" THEN JStr(Unescape(tok.s))
    ELSE IF tok.t = "number" THEN ParseNumber(tok.s)
    ELSE IF tok.t = "null" THEN JNull
    ELSE JBool(tok.t = "true")

RECURSIVE DumpMembers(_)
DumpMembers(d) ==
    IF d = <<>> THEN <<>>
    ELSE <<Token("string", Escape(<<Head(d)[1]>>)), Punct(":"), DumpValue(Head(d)[2])>>
         \o (IF Tail(d) = <<>> THEN <<>> ELSE <<Punct(",")>> \o DumpMembers(Tail(d)))

DumpDict(d) == <<Punct("{")>> \o DumpMembers(d) \o <<Punct("}")>>

RECURSIVE DumpElements(_)
DumpElements(ds) ==
    IF ds = <<>> THEN <<>>
    ELSE DumpDict(Head(ds))
         \o (IF Tail(ds) = <<>> THEN <<>> ELSE <<Punct(",")>> \o DumpElements(Tail(ds)))

\* json.dumps of a list of dicts.
Dumps(ds) == <<Punct("[")>> \o DumpElements(ds) \o <<Punct("]")>>

\* The members of a dict from the key token at i on; next is the index after
\* the closing brace.
RECURSIVE ParseMembers(_, _, _)
ParseMembers(ts, i, acc) ==
    LET acc1 == Append(acc, <<Unescape(ts[i].s)[1], ParseValue(ts[i + 2])>>)
    IN IF ts[i + 3].t = ","
       THEN ParseMembers(ts, i + 4, acc1)
       ELSE [val |-> acc1, next |-> i + 4]

ParseDict(ts, i) ==
    IF ts[i + 1].t = "}" THEN [val |-> <<>>, next |-> i + 2]
    ELSE ParseMembers(ts, i + 1, <<>>)

\* The dicts of a list from the opening brace at i on; d is the dict parsed
\* last.
RECURSIVE ParseElements(_, _, _)
RECURSIVE ParseRest(_, _, _)
ParseElements(ts, i, acc) == ParseRest(ts, ParseDict(ts, i), acc)
ParseRest(ts, d, acc) ==
    IF ts[d.next].t = ","
    THEN ParseElements(ts, d.next + 1, Append(acc, d.val))
    ELSE Append(acc, d.val)

\* json.loads of the text of a list of dicts.
Loads(ts) == IF ts[2].t = "]" THEN <<>> ELSE ParseElements(ts, 2, <<>>)

\* Mutant of as_json: the three fields of each Operation are written, not
\* its descr.
as_json_ThreeFields(list) ==
    Dumps([i \in 1..Len(list) |->
            SelectSeq(EntryDict(list[i].descr),
                      LAMBDA m : m[1] \in {"libelleOperation", "dateOperation", "montant"})])

\* as_json, of Operations and of DeferredOperations.
as_json(list) == Dumps([i \in 1..Len(list) |-> EntryDict(list[i].descr)])

\* The raw entries retrieved by the current call, in retrieval order.
RECURSIVE RawItems(_)
RawItems(ps) ==
    IF ps = <<>> THEN <<>> ELSE Head(ps).rsp.items \o RawItems(Tail(ps))

\* C17: for both collections, decoding the text as_json returns gives the
\* raw entries of the collection in order, every member with its value, the
\* ones Operation does not read included; after a constructor returned
\* these are the entries retrieved, in retrieval order.
C17_AsJsonRoundTrip ==
    (kind # "none" /\ pc = "returned") =>
        /\ Loads(as_json(list_operations)) =
              [i \in 1..Len(list_operations) |-> EntryDict(list_operations[i].descr)]
        /\ call.via = "init" =>
              [i \in 1..Len(list_operations) |-> list_operations[i].descr]
                  = RawItems(Pages)
C17_Witness ==
    /\ kind = "DeferredOperations" /\ pc = "returned"
    /\ Len(list_operations) = 2
    /\ Len(Loads(as_json(list_operations))) = 2
    /\ Loads(as_json(list_operations))[2][3] = <<"montant", JFloat(-1211, 2)>>

\* Calendar order of two dates, which is the order of their "%Y-%m-%d"
\* strings.
DateLeq(a, b) ==
    \/ a.y < b.y
    \/ a.y = b.y /\ a.m < b.m
    \/ a.y = b.y /\ a.m = b.m /\ a.d <= b.d

\* C18: in every GET of a windowed retrieval dateDebut is the timestamp of
\* the start date, the same on every page, and when the start date is not
\* after the end date the dateDebut of a request is not after its dateFin.
C18_TimestampsOrderedAndStable ==
    Windowed =>
        \A i \in GetIdx :
            LET q == trace[i].url
            IN /\ q.dateDebut = trace[FirstGet].url.dateDebut
               /\ q.dateDebut = Timestamp(self.date_start)
               /\ (DateLeq(self.date_start, self.date_stop) /\ "dateFin" \in q.params) =>
                     q.dateDebut <= q.dateFin
C18_Witness ==
    /\ Windowed /\ Cardinality(GetIdx) = 3
    /\ self.date_start = Date(2023, 12, 31)
    /\ self.date_stop = Date(2024, 3, 1)
    /\ trace[FirstGet].url.dateFin - trace[FirstGet].url.dateDebut = 61 * 86400
    /\ \A i \in GetIdx : trace[i].url.dateDebut = trace[FirstGet].url.dateDebut

\* C19: a windowed retrieval in replay mode issues no GET and makes one
\* fixture lookup, after which it has ended, whatever the requested count
\* and the number of entries of the fixture: the envelope wrapped around the
\* fixture content has no hasNext and no nextSetStartIndex.
C19_ReplaySingleLookup ==
    (Windowed /\ session.useMocks) =>
        /\ GetIdx = {}
        /\ pc # "await"
        /\ Cardinality(Indices("read")) <= 1
        /\ Indices("read") # {} => pc \in {"returned", "raised"}
        /\ pc \in {"returned", "raised"} => Cardinality(Indices("read")) = 1
        /\ \A i \in PageIdx :
              trace[i].rsp.hasNext = "absent" /\ trace[i].rsp.next = NoCursor
C19_Witness ==
    /\ Windowed /\ session.useMocks /\ pc = "returned"
    /\ call.count = 70
    /\ Cardinality(Indices("read")) = 1
    /\ Len(Pages) = 1
    /\ Len(Pages[1].rsp.items) = 2
    /\ NextCount(call.count, call.limit) > 0

\* What is left to retrieve after the k-th page, from the requested count
\* and the page caps alone: the cap of the first page is the limit argument,
\* that of every later page the default.
RemainingAfter(k) ==
    LET r == call.count - call.limit - (k - 1) * DefaultLimit
    IN IF r > 0 THEN r ELSE 0
GetRank(i) == Cardinality({j \in GetIdx : j <= i})
PageRank(i) == Cardinality({j \in PageIdx : j <= i})

\* C20: in a live windowed retrieval every request and the decision to make
\* another one are determined by the requested count, the page caps and the
\* hasNext and nextSetStartIndex of the pages before it; the number of
\* entries of a page has no part in them, so retrievals that differ only in
\* the entries of their pages issue the same requests.
C20_RequestsIgnoreEntries ==
    (Windowed /\ Live) =>
        /\ \A i \in GetIdx :
              LET q == trace[i].url
              IN /\ q.count = IF GetRank(i) = 1 THEN call.limit ELSE DefaultLimit
                 /\ q.dateDebut = Timestamp(self.date_start)
                 /\ IF GetRank(i) = 1
                    THEN /\ q.params = BaseParams \cup {"dateFin"}
                         /\ q.dateFin = Timestamp(self.date_stop)
                    ELSE /\ q.params = BaseParams \cup {"startIndex"}
                         /\ q.startIndex = Quote(PrevPage(i).rsp.next)
        /\ \A i \in PageIdx :
              LET more == RemainingAfter(PageRank(i)) > 0 /\ SaysMore(trace[i].rsp)
                  later == {j \in GetIdx : j > i}
              IN IF more THEN later # {} \/ pc = "enter"
                 ELSE later = {} /\ pc = "returned"
C20_Witness ==
    /\ Windowed /\ Live /\ pc = "returned"
    /\ Cardinality(GetIdx) = 3
    /\ Len(Pages) = 3
    /\ Len(Pages[1].rsp.items) = 0
    /\ Len(Pages[2].rsp.items) = MaxPageLen
    /\ Len(Pages[3].rsp.items) = 1

-----------------------------------------------------------------------------
(* C21-C24 *)

\* The fetch that follows the event at index i, if there is one.
NextFetchAfter(i) == CHOOSE j \in FetchIdx : j > i /\ \A k \in FetchIdx : k > i => j <= k

\* While a windowed call runs: at most one GET is unanswered, and its answer
\* is the next event; every fetch before the one under way has its page
\* decoded and appended; and each continuation runs with less left to
\* retrieve than the page before it.
C21_OneAtATime ==
    Windowed =>
        /\ \A i \in GetIdx : i < Len(trace) => trace[i + 1].ev = "response"
        /\ Cardinality(GetIdx) - Cardinality(Indices("response"))
              = IF pc = "await" THEN 1 ELSE 0
        /\ pc \in {"enter", "await"} =>
              /\ Len(Pages) = Fetches - (IF pc = "await" THEN 1 ELSE 0)
              /\ list_operations = call.before \o ConcatItems(Pages)
        /\ \A i \in PageIdx :
              /\ (\E j \in FetchIdx : j > i) =>
                    /\ trace[NextFetchAfter(i)].frame.count < trace[i].frame.count
                    /\ trace[NextFetchAfter(i)].frame.count > 0
              /\ (i = Len(trace) /\ pc = "enter") =>
                    /\ frame.count < trace[i].frame.count
                    /\ frame.count > 0

\* C21: a windowed retrieval that has begun ends, with a result or with an
\* error, provided every GET returns, whatever the server answers; until
\* then it has one request in flight at most, fetches page k+1 only after
\* page k was decoded and appended, and has strictly less left to retrieve
\* at every continuation.
C21_Terminates ==
    /\ []C21_OneAtATime
    /\ (Windowed /\ pc = "enter") ~> (pc \in {"returned", "raised"})
C21_Witness ==
    /\ Windowed /\ Live /\ pc = "returned"
    /\ call.via = "call" /\ call.count = 70 /\ call.limit = 10
    /\ Cardinality(GetIdx) = 3
    /\ \A i \in PageIdx : SaysMore(trace[i].rsp)

WriteIdx == Indices("write")
LastWrite == CHOOSE i \in WriteIdx : \A j \in WriteIdx : j <= i
\* The 200 responses whose body decodes to an object with listeOperations.
FetchedIdx ==
    {i \in Indices("response") :
        trace[i].status = HttpOk /\ DecodeError(trace[i].text) = "none"}

\* C22: in a live windowed retrieval with writeMocks set every successfully
\* fetched page is written once, right after its response and before the
\* next fetch, always under the one name built from the account and
\* writeMockSuffix; as a write replaces the content of the file, the file
\* holds the entries of the page written last, and after the retrieval
\* those of the last page only.
C22_EveryPageOverwritesOneFixture ==
    (Windowed /\ Live /\ session.writeMocks) =>
        /\ \A i \in WriteIdx :
              /\ trace[i].name =
                    "account-" \o self.grandeFamilleCode \o "-" \o self.compteIdx
                        \o "_operations_" \o session.writeMockSuffix \o ".json"
              /\ i - 1 \in FetchedIdx
              /\ trace[i].data = Handed("list", ArrayDoc(trace[i - 1].text.items))
        /\ \A i \in FetchedIdx : i + 1 \in WriteIdx
        /\ WriteIdx # {} =>
              fixtures[trace[LastWrite].name] = ArrayDoc(trace[LastWrite].data.doc.items)
        /\ (pc = "returned" /\ Pages # <<>>) =>
              fixtures[WriteName] = ArrayDoc(Pages[Len(Pages)].rsp.items)
C22_Witness ==
    /\ Windowed /\ Live /\ session.writeMocks /\ pc = "returned"
    /\ call.via = "init"
    /\ Len(Pages) = 3
    /\ Cardinality(WriteIdx) = 3
    /\ Len(list_operations) = 3 * MaxPageLen - 1
    /\ Len(fixtures[WriteName].items) = MaxPageLen - 1

\* The events of a pass, and the records it was handed, in order.
PassIdx(pass) ==
    {i \in 1..Len(trace) : trace[i].ev \in {"iter", "next"} /\ trace[i].pass = pass}
Yielded(pass) ==
    LET evs == SelectSeq(trace, LAMBDA e :
                   e.ev = "next" /\ e.pass = pass /\ ~e.stop)
    IN [i \in 1..Len(evs) |-> evs[i].op]
\* No step of the other pass lies between the iter() of the pass and its
\* last step so far.
Uninterrupted(pass) ==
    \A i, j \in PassIdx(pass) : \A k \in i..j : k \in PassIdx(pass)
IsPrefix(s, t) == Len(s) <= Len(t) /\ s = SubSeq(t, 1, Len(s))

\* C23: a pass that no step of another pass interrupts is handed the records
\* of list_operations from the first on, in order and once each, and
\* StopIteration after the last, as its final step; n is the number of
\* records handed out so far, between 0 and len(list_operations); a pass
\* begun by a new iter() after the first has ended starts from the first
\* record again.
C23_SinglePassYieldsAll ==
    /\ self.n # NoAttribute => 0 <= self.n /\ self.n <= __len__
    /\ Len(trace) > 0 /\ trace[Len(trace)].ev = "iter" => self.n = 0
    /\ \A pass \in PassIds :
          (Started(pass) /\ Uninterrupted(pass)) =>
              /\ IsPrefix(Yielded(pass), list_operations)
              /\ Stopped(pass) =>
                    /\ Yielded(pass) = list_operations
                    /\ \A i \in PassIdx(pass) :
                          trace[i].ev = "next" /\ trace[i].stop =>
                              \A j \in PassIdx(pass) : j <= i
              /\ (\E i \in PassIdx(pass) : i = Len(trace)) =>
                    self.n = Len(Yielded(pass))
C23_Witness ==
    /\ kind = "DeferredOperations"
    /\ __len__ = 2
    /\ Stopped("outer") /\ Stopped("inner")
    /\ Uninterrupted("outer") /\ Uninterrupted("inner")
    /\ Yielded("inner") = list_operations
    /\ self.n = 2

\* C24: two passes over the same object whose steps interleave are
\* independent: each is handed the records of list_operations from the
\* first on, in order, and all of them before its StopIteration, whatever
\* the other pass does.
C24_InterleavedPassesIndependent ==
    \A pass \in PassIds :
        Started(pass) =>
            /\ IsPrefix(Yielded(pass), list_operations)
            /\ Stopped(pass) => Yielded(pass) = list_operations

====
